---- MODULE Spec2Model ----
(***************************************************************************)
(* Pomodoro timer (app1.py): the session state of the Streamlit script,    *)
(* the button callbacks, the "Apply Settings" handler and the timer loop.  *)
(*                                                                         *)
(* Execution model.  Every widget interaction makes Streamlit run the      *)
(* script again: a script run in progress is abandoned at its next yield   *)
(* point (any st.* call or session_state access), the widget's on_click    *)
(* callback runs, and the script body is executed from the top.  A click   *)
(* that arrives while the timer loop executes therefore acts on the        *)
(* session state as the loop left it: in particular on the state between   *)
(* the decrement of line 174 and the finish handling of lines 190-196.     *)
(***************************************************************************)
EXTENDS Integers, Sequences, FiniteSets, TLC

VARIABLES
    timer_running,          \* st.session_state.timer_running
    current_mode,           \* st.session_state.current_mode
    work_duration,          \* st.session_state.work_duration (seconds)
    short_break_duration,   \* st.session_state.short_break_duration
    long_break_duration,    \* st.session_state.long_break_duration
    pomodoros_completed,    \* st.session_state.pomodoros_completed
    remaining_time,         \* st.session_state.remaining_time
    pc,                     \* position of the script run: "idle", "loop", "sleep"
    how,                    \* history: how the session got here from Init
    entered,                \* history: modes entered since Init (while tracked)
    expect,                 \* history: what Skip would have given at the last Start
    last,                   \* history: the last user command, whether the timer was
                            \*          running when it arrived, the settings it applied
    ticks,                  \* history: decrements since the last Start (while tracked)
    interrupted             \* history: a rerun without a command came at 00:00 with
                            \*          the timer running, since the last command

engine == <<timer_running, current_mode, work_duration, short_break_duration,
            long_break_duration, pomodoros_completed, remaining_time>>
history == <<how, entered, expect, last>>
vars == <<timer_running, current_mode, work_duration, short_break_duration,
          long_break_duration, pomodoros_completed, remaining_time, pc,
          how, entered, expect, last, ticks, interrupted>>

(***************************************************************************)
(* Program constants                                                       *)
(***************************************************************************)
DEFAULT_WORK_MINUTES == 25
DEFAULT_SHORT_BREAK_MINUTES == 5
DEFAULT_LONG_BREAK_MINUTES == 15
POMODOROS_BEFORE_LONG_BREAK == 4
SECONDS_PER_MINUTE == 60
MIN_VALUE == 1

(***************************************************************************)
(* Bounds of the model                                                     *)
(***************************************************************************)
\* minutes a user types into a duration field: 0 .. MaxMinutes
MaxMinutes == 2
\* pomodoros_completed is unbounded in the program; the model stops counting here
MaxPomodoros == 8

Modes == {"Work", "Short Break", "Long Break"}
MinuteInputs == 0 .. MaxMinutes
\* what a user submits in the three duration fields; <<10, 2, 2>> is the
\* reconfiguration of the specification's Scenario C
SettingsInputs == (MinuteInputs \X MinuteInputs \X MinuteInputs) \cup {<<10, 2, 2>>}

\* The configured duration of a mode under the durations <<w, s, l>>.
DurationOf(mode, w, s, l) ==
    CASE mode = "Work" -> w
      [] mode = "Short Break" -> s
      [] mode = "Long Break" -> l

(***************************************************************************)
(* initialize_state                                                        *)
(***************************************************************************)
Init ==
    /\ timer_running = FALSE
    /\ current_mode = "Work"
    /\ work_duration = DEFAULT_WORK_MINUTES * SECONDS_PER_MINUTE
    /\ short_break_duration = DEFAULT_SHORT_BREAK_MINUTES * SECONDS_PER_MINUTE
    /\ long_break_duration = DEFAULT_LONG_BREAK_MINUTES * SECONDS_PER_MINUTE
    /\ pomodoros_completed = 0
    /\ remaining_time = DEFAULT_WORK_MINUTES * SECONDS_PER_MINUTE
    /\ pc = "idle"
    /\ how = "init"
    /\ entered = << >>
    /\ expect = << >>
    /\ last = <<"none", FALSE, << >> >>
    /\ ticks = 0
    /\ interrupted = FALSE

(***************************************************************************)
(* Helper functions of the script                                          *)
(***************************************************************************)
\* Mutant: the long-break test reads the count as it was before line 42-43.
switch_mode_result_stale ==
    IF current_mode = "Work"
    THEN IF pomodoros_completed % POMODOROS_BEFORE_LONG_BREAK = 0
         THEN [current_mode |-> "Long Break",
               remaining_time |-> long_break_duration,
               pomodoros_completed |-> pomodoros_completed + 1,
               timer_running |-> FALSE]
         ELSE [current_mode |-> "Short Break",
               remaining_time |-> short_break_duration,
               pomodoros_completed |-> pomodoros_completed + 1,
               timer_running |-> FALSE]
    ELSE [current_mode |-> "Work",
          remaining_time |-> work_duration,
          pomodoros_completed |-> pomodoros_completed,
          timer_running |-> FALSE]

\* Mutant: line 42 is missing, the session's count is never incremented.
switch_mode_result_nocount ==
    IF current_mode = "Work"
    THEN IF (pomodoros_completed + 1) % POMODOROS_BEFORE_LONG_BREAK = 0
         THEN [current_mode |-> "Long Break",
               remaining_time |-> long_break_duration,
               pomodoros_completed |-> pomodoros_completed,
               timer_running |-> FALSE]
         ELSE [current_mode |-> "Short Break",
               remaining_time |-> short_break_duration,
               pomodoros_completed |-> pomodoros_completed,
               timer_running |-> FALSE]
    ELSE [current_mode |-> "Work",
          remaining_time |-> work_duration,
          pomodoros_completed |-> pomodoros_completed,
          timer_running |-> FALSE]

\* Mutant: the else branch of line 52 sends a Short Break on to the Long Break.
switch_mode_result_break_to_break ==
    IF current_mode = "Work"
    THEN IF (pomodoros_completed + 1) % POMODOROS_BEFORE_LONG_BREAK = 0
         THEN [current_mode |-> "Long Break",
               remaining_time |-> long_break_duration,
               pomodoros_completed |-> pomodoros_completed + 1,
               timer_running |-> FALSE]
         ELSE [current_mode |-> "Short Break",
               remaining_time |-> short_break_duration,
               pomodoros_completed |-> pomodoros_completed + 1,
               timer_running |-> FALSE]
    ELSE IF current_mode = "Short Break"
         THEN [current_mode |-> "Long Break",
               remaining_time |-> long_break_duration,
               pomodoros_completed |-> pomodoros_completed,
               timer_running |-> FALSE]
         ELSE [current_mode |-> "Work",
               remaining_time |-> work_duration,
               pomodoros_completed |-> pomodoros_completed,
               timer_running |-> FALSE]

\* switch_mode: the values it leaves in the session state.
switch_mode_result ==
    IF current_mode = "Work"
    THEN IF (pomodoros_completed + 1) % POMODOROS_BEFORE_LONG_BREAK = 0
         THEN [current_mode |-> "Long Break",
               remaining_time |-> long_break_duration,
               pomodoros_completed |-> pomodoros_completed + 1,
               timer_running |-> FALSE]
         ELSE [current_mode |-> "Short Break",
               remaining_time |-> short_break_duration,
               pomodoros_completed |-> pomodoros_completed + 1,
               timer_running |-> FALSE]
    ELSE [current_mode |-> "Work",
          remaining_time |-> work_duration,
          pomodoros_completed |-> pomodoros_completed,
          timer_running |-> FALSE]

\* Mutant: line 57 is missing, the timer keeps running across the switch.
switch_mode_keeps_running ==
    /\ current_mode' = switch_mode_result.current_mode
    /\ remaining_time' = switch_mode_result.remaining_time
    /\ pomodoros_completed' = switch_mode_result.pomodoros_completed
    /\ timer_running' = timer_running
    /\ UNCHANGED <<work_duration, short_break_duration, long_break_duration>>

switch_mode ==
    /\ current_mode' = switch_mode_result.current_mode
    /\ remaining_time' = switch_mode_result.remaining_time
    /\ pomodoros_completed' = switch_mode_result.pomodoros_completed
    /\ timer_running' = switch_mode_result.timer_running
    /\ UNCHANGED <<work_duration, short_break_duration, long_break_duration>>

\* The model counts no further than MaxPomodoros.
CanSwitch == current_mode = "Work" => pomodoros_completed < MaxPomodoros

\* Mutant: line 61 is missing, the timer is started whatever time remains.
start_timer_unguarded ==
    /\ timer_running' = TRUE
    /\ UNCHANGED <<current_mode, work_duration, short_break_duration,
                   long_break_duration, pomodoros_completed, remaining_time>>

start_timer ==
    /\ timer_running' = (IF remaining_time > 0 THEN TRUE ELSE timer_running)
    /\ UNCHANGED <<current_mode, work_duration, short_break_duration,
                   long_break_duration, pomodoros_completed, remaining_time>>

\* Mutant: line 67 reads timer_running = not timer_running.
pause_timer_toggle ==
    /\ timer_running' = ~timer_running
    /\ UNCHANGED <<current_mode, work_duration, short_break_duration,
                   long_break_duration, pomodoros_completed, remaining_time>>

\* Mutant: line 67 is missing.
pause_timer_noop ==
    /\ timer_running' = timer_running
    /\ UNCHANGED <<current_mode, work_duration, short_break_duration,
                   long_break_duration, pomodoros_completed, remaining_time>>

pause_timer ==
    /\ timer_running' = FALSE
    /\ UNCHANGED <<current_mode, work_duration, short_break_duration,
                   long_break_duration, pomodoros_completed, remaining_time>>

\* Mutant: the reset reads the durations as they were before the handler's
\* assignments (reset_current_timer() called before lines 125-127).
reset_current_timer_stale ==
    /\ timer_running' = FALSE
    /\ remaining_time' = DurationOf(current_mode, work_duration,
                                    short_break_duration, long_break_duration)
    /\ UNCHANGED <<current_mode, pomodoros_completed>>

\* Mutant: line 72 is missing, the reset leaves the timer running.
reset_current_timer_keeps_running ==
    /\ timer_running' = timer_running
    /\ remaining_time' = DurationOf(current_mode, work_duration',
                                    short_break_duration', long_break_duration')
    /\ UNCHANGED <<current_mode, pomodoros_completed>>

\* Mutant: lines 73-78 are replaced by remaining_time = work_duration.
reset_current_timer_work_only ==
    /\ timer_running' = FALSE
    /\ remaining_time' = work_duration'
    /\ UNCHANGED <<current_mode, pomodoros_completed>>

\* reset_current_timer reads the durations as they are when it is called: the
\* caller fixes work_duration', short_break_duration', long_break_duration'.
reset_current_timer ==
    /\ timer_running' = FALSE
    /\ remaining_time' = DurationOf(current_mode, work_duration',
                                    short_break_duration', long_break_duration')
    /\ UNCHANGED <<current_mode, pomodoros_completed>>

\* Mutant: line 87 is missing, the count survives the reset.
reset_cycle_keeps_count ==
    /\ timer_running' = FALSE
    /\ current_mode' = "Work"
    /\ remaining_time' = work_duration
    /\ pomodoros_completed' = pomodoros_completed
    /\ UNCHANGED <<work_duration, short_break_duration, long_break_duration>>

\* Mutant: line 85 is missing, the mode survives the reset.
reset_cycle_keeps_mode ==
    /\ timer_running' = FALSE
    /\ current_mode' = current_mode
    /\ remaining_time' = work_duration
    /\ pomodoros_completed' = 0
    /\ UNCHANGED <<work_duration, short_break_duration, long_break_duration>>

reset_cycle ==
    /\ timer_running' = FALSE
    /\ current_mode' = "Work"
    /\ remaining_time' = work_duration
    /\ pomodoros_completed' = 0
    /\ UNCHANGED <<work_duration, short_break_duration, long_break_duration>>

\* The script body after a callback or st.rerun(): it reaches line 168 and
\* enters the timer loop when timer_running, and ends otherwise.
ScriptRun == pc' = IF timer_running' THEN "loop" ELSE "idle"

\* History bookkeeping.
Untracked == how' = "mixed" /\ entered' = << >> /\ expect' = << >>
             /\ ticks' = 0 /\ interrupted' = FALSE
Log(command, input) == last' = <<command, timer_running, input>>
SkipOutcome == <<switch_mode_result.current_mode,
                 switch_mode_result.remaining_time,
                 switch_mode_result.pomodoros_completed>>

(***************************************************************************)
(* User commands                                                           *)
(***************************************************************************)
\* "Start" is rendered only while not timer_running, disabled at remaining_time <= 0.
Start ==
    /\ ~timer_running
    /\ ~(remaining_time <= 0)
    /\ start_timer
    /\ ScriptRun
    /\ how' = (IF how \in {"init", "expiries"} THEN "expiries" ELSE "mixed")
    /\ entered' = (IF how \in {"init", "expiries"} THEN entered ELSE << >>)
    /\ expect' = SkipOutcome
    /\ ticks' = 0
    /\ interrupted' = FALSE
    /\ Log("start", << >>)

\* "Pause" is rendered only while timer_running.
Pause ==
    /\ timer_running
    /\ pause_timer
    /\ ScriptRun
    /\ Untracked
    /\ Log("pause", << >>)

ResetPhase ==
    /\ UNCHANGED <<work_duration, short_break_duration, long_break_duration>>
    /\ reset_current_timer
    /\ ScriptRun
    /\ Untracked
    /\ Log("reset_phase", << >>)

Skip ==
    /\ CanSwitch
    /\ switch_mode
    /\ ScriptRun
    /\ how' = (IF how \in {"init", "skips"} THEN "skips" ELSE "mixed")
    /\ entered' = (IF how \in {"init", "skips"}
                   THEN Append(entered, current_mode') ELSE << >>)
    /\ expect' = << >>
    /\ ticks' = 0
    /\ interrupted' = FALSE
    /\ Log("skip", << >>)

ResetCycle ==
    /\ reset_cycle
    /\ ScriptRun
    /\ Untracked
    /\ Log("reset_cycle", << >>)

\* Mutant: the fields have no min_value.
number_input_unbounded(minutes) == TRUE

\* st.number_input(min_value=1): a typed value below min_value is not taken.
number_input(minutes) == minutes >= MIN_VALUE

\* "Apply Settings & Reset Current Timer" with the three fields typed as w, s, l.
ApplySettings(w, s, l) ==
    IF number_input(w) /\ number_input(s) /\ number_input(l)
    THEN /\ work_duration' = w * SECONDS_PER_MINUTE
         /\ short_break_duration' = s * SECONDS_PER_MINUTE
         /\ long_break_duration' = l * SECONDS_PER_MINUTE
         /\ reset_current_timer
         /\ ScriptRun
         /\ Untracked
         /\ Log("apply", <<w, s, l>>)
    ELSE /\ UNCHANGED <<engine, pc, how, entered, expect, ticks, interrupted>>
         /\ Log("rejected", << >>)

Apply == \E in \in SettingsInputs : ApplySettings(in[1], in[2], in[3])

(***************************************************************************)
(* Timer loop                                                              *)
(***************************************************************************)
\* Mutant: the loop condition is remaining_time >= 0.
Tick_offbyone ==
    /\ pc = "loop"
    /\ remaining_time >= 0 /\ timer_running
    /\ remaining_time' = remaining_time - 1
    /\ pc' = "sleep"
    /\ UNCHANGED <<timer_running, current_mode, work_duration, short_break_duration,
                   long_break_duration, pomodoros_completed>>
    /\ UNCHANGED history
    /\ ticks' = (IF how = "expiries" THEN ticks + 1 ELSE 0)
    /\ UNCHANGED interrupted

\* Lines 169-177: the loop condition holds, the time is decremented, the
\* script sleeps for a second.
Tick ==
    /\ pc = "loop"
    /\ remaining_time > 0 /\ timer_running
    /\ remaining_time' = remaining_time - 1
    /\ pc' = "sleep"
    /\ UNCHANGED <<timer_running, current_mode, work_duration, short_break_duration,
                   long_break_duration, pomodoros_completed>>
    /\ UNCHANGED history
    /\ ticks' = (IF how = "expiries" THEN ticks + 1 ELSE 0)
    /\ UNCHANGED interrupted

\* Lines 177-182: the sleep ends; the loop goes on unless the timer was stopped.
Wake ==
    /\ pc = "sleep"
    /\ pc' = IF ~timer_running THEN "idle" ELSE "loop"
    /\ UNCHANGED engine
    /\ UNCHANGED <<history, ticks, interrupted>>

\* Mutant: lines 186-196 are missing, the end of the countdown is not handled.
Finish_no_switch ==
    /\ pc = "loop"
    /\ ~(remaining_time > 0 /\ timer_running)
    /\ pc' = "idle"
    /\ UNCHANGED engine
    /\ UNCHANGED <<history, ticks, interrupted>>

\* Mutant: line 195 calls reset_current_timer() and the expired phase starts over.
Finish_resets ==
    /\ pc = "loop"
    /\ ~(remaining_time > 0 /\ timer_running)
    /\ UNCHANGED <<work_duration, short_break_duration, long_break_duration>>
    /\ reset_current_timer
    /\ ScriptRun
    /\ how' = how
    /\ entered' = (IF how = "expiries" THEN Append(entered, current_mode') ELSE entered)
    /\ UNCHANGED <<expect, last, ticks, interrupted>>

\* Lines 169, 186-196: the loop condition fails; a timer that reached zero while
\* running is switched to the next mode and the script is run again.
Finish ==
    /\ pc = "loop"
    /\ ~(remaining_time > 0 /\ timer_running)
    /\ IF remaining_time <= 0 /\ timer_running
       THEN /\ CanSwitch
            /\ switch_mode
            /\ ScriptRun
       ELSE /\ pc' = "idle"
            /\ UNCHANGED engine
    /\ how' = how
    /\ entered' = (IF how = "expiries" THEN Append(entered, current_mode') ELSE entered)
    /\ UNCHANGED <<expect, last, ticks, interrupted>>

\* Mutant: line 168 reads "if timer_running and remaining_time > 0".
Rerun_skips_finish ==
    /\ pc' = IF timer_running /\ remaining_time > 0 THEN "loop" ELSE "idle"
    /\ UNCHANGED engine
    /\ UNCHANGED <<history, ticks>>
    /\ interrupted' = (interrupted \/ (timer_running /\ remaining_time <= 0))

\* A widget event without a callback (a duration field is edited): the script
\* run is abandoned where it is and the script is run again from the top, on
\* the session state as it is.
Rerun ==
    /\ pc' = IF timer_running THEN "loop" ELSE "idle"
    /\ UNCHANGED engine
    /\ UNCHANGED <<history, ticks>>
    /\ interrupted' = (interrupted \/ (timer_running /\ remaining_time <= 0))

Next ==
    \/ Start
    \/ Pause
    \/ ResetPhase
    \/ Skip
    \/ ResetCycle
    \/ Apply
    \/ Tick
    \/ Wake
    \/ Finish
    \/ Rerun

Spec == Init /\ [][Next]_vars

\* The script runs on by itself: the loop body, the wake-up after the sleep
\* and the finish handling need no event, so they are taken when they stay
\* possible.
Driver == Tick \/ Wake \/ Finish

\* The program with a timer loop that keeps running and a user who presses
\* Start whenever it stays available.
LiveSpec == Init /\ [][Next]_vars /\ WF_vars(Driver) /\ WF_vars(Start)

TypeOK ==
    /\ timer_running \in BOOLEAN
    /\ current_mode \in Modes
    /\ pomodoros_completed \in 0 .. MaxPomodoros
    /\ remaining_time \in Int
    /\ pc \in {"idle", "loop", "sleep"}
    /\ how \in {"init", "skips", "expiries", "mixed"}
    /\ last[2] \in BOOLEAN
    /\ last[3] \in SettingsInputs \cup {<< >>}
    /\ ticks \in Nat
    /\ interrupted \in BOOLEAN

(***************************************************************************)
(* Properties                                                              *)
(***************************************************************************)
Durations == <<work_duration, short_break_duration, long_break_duration>>
ConfiguredDuration == DurationOf(current_mode, work_duration,
                                 short_break_duration, long_break_duration)
ValidInput(in) == in[1] >= 1 /\ in[2] >= 1 /\ in[3] >= 1

\* The i-th mode entered in the cycle Work, Short, Work, Short, Work, Short,
\* Work, Long, ... that starts in Work (which is not itself "entered").
CyclePattern(i) ==
    IF i % 2 = 0 THEN "Work"
    ELSE IF ((i + 1) \div 2) % 4 = 0 THEN "Long Break" ELSE "Short Break"

\* C1: from the initial state and by natural expiries alone (Start, then the
\* timer loop until the phase ends, repeated), the modes entered are Short
\* Break, Work, Short Break, Work, Short Break, Work, Long Break, Work, ...:
\* the break after the n-th Work completion is long exactly when n is a
\* multiple of 4.
CycleProperty ==
    how = "expiries" =>
        /\ \A i \in 1 .. Len(entered) : entered[i] = CyclePattern(i)
        /\ \A i \in 1 .. Len(entered) :
               entered[i] = "Long Break" <=> (i % 2 = 1 /\ ((i + 1) \div 2) % 4 = 0)
        /\ current_mode = (IF entered = << >> THEN "Work" ELSE entered[Len(entered)])
        /\ pomodoros_completed = (Len(entered) + 1) \div 2

\* Two full cycles by natural expiry: the 8th Work completion entered Long Break.
CycleWitness ==
    /\ how = "expiries"
    /\ Len(entered) = 15
    /\ current_mode = "Long Break"

\* C2: every switch_mode, by Skip or by expiry, running or not: out of Work
\* the count goes up by exactly 1 and the new mode is Long Break when the new
\* count is a multiple of 4 and Short Break otherwise; out of a break the new
\* mode is Work and the count is unchanged; the remaining time is the
\* configured duration of the new mode and the timer is stopped.
SwitchModePost ==
    [][ (Skip \/ Finish) =>
            /\ current_mode = "Work" =>
                   /\ pomodoros_completed' = pomodoros_completed + 1
                   /\ current_mode' = (IF pomodoros_completed' % 4 = 0
                                       THEN "Long Break" ELSE "Short Break")
            /\ current_mode # "Work" =>
                   /\ current_mode' = "Work"
                   /\ pomodoros_completed' = pomodoros_completed
            /\ remaining_time' = ConfiguredDuration'
            /\ timer_running' = FALSE
            /\ Durations' = Durations ]_vars

\* A Skip that arrived while the timer was running, out of the 4th Work phase.
SwitchModeWitness ==
    /\ last = <<"skip", TRUE, << >> >>
    /\ current_mode = "Long Break"
    /\ pomodoros_completed = 4
    /\ ~timer_running

\* C3 as stated: four consecutive Skips from the initial state leave Long
\* Break, 900 seconds, 4 completed, not running.
ScenarioBFourSkips ==
    (how = "skips" /\ Len(entered) = 4) =>
        /\ current_mode = "Long Break"
        /\ remaining_time = 900
        /\ pomodoros_completed = 4
        /\ ~timer_running

\* C3 amended: four consecutive Skips from the initial state leave Work, 1500
\* seconds, 2 completed, not running (every second Skip leaves a break); Long
\* Break, 900 seconds, 4 completed, not running is the state after the
\* seventh Skip.
ScenarioBSevenSkips ==
    /\ (how = "skips" /\ Len(entered) = 4) =>
           /\ current_mode = "Work"
           /\ remaining_time = 1500
           /\ pomodoros_completed = 2
           /\ ~timer_running
    /\ (how = "skips" /\ Len(entered) = 7) =>
           /\ current_mode = "Long Break"
           /\ remaining_time = 900
           /\ pomodoros_completed = 4
           /\ ~timer_running

ScenarioBWitness ==
    /\ how = "skips"
    /\ Len(entered) = 7
    /\ entered[4] = "Work"

\* C4: a phase that was started with some time left and ran down to zero
\* undisturbed ends in the mode, remaining time and count that Skip would
\* have given in the state where it was started, and in every state on the
\* way down.
SkipEquivalence ==
    /\ (expect # << >> /\ ~timer_running) =>
           <<current_mode, remaining_time, pomodoros_completed>> = expect
    \* and in every state of the countdown Skip would still give the same
    /\ (expect # << >> /\ timer_running) => SkipOutcome = expect

\* A phase started after other commands had been used ran down to zero and
\* was switched out of Work.
SkipEquivalenceWitness ==
    /\ expect # << >>
    /\ ~timer_running
    /\ how = "mixed"
    /\ current_mode = "Short Break"

\* A user command other than an input the fields refuse (an applied input is
\* the one the step recorded).
UserCommand ==
    \/ Start
    \/ Pause
    \/ ResetPhase
    \/ Skip
    \/ ResetCycle
    \/ /\ last'[1] = "apply"
       /\ ApplySettings(last'[3][1], last'[3][2], last'[3][3])

\* C5: the switch is part of the tick that reaches zero, so no user command
\* is ever applied to a state whose remaining time is 0.
TickAtomicAtZero == [][ UserCommand => remaining_time > 0 ]_vars

\* C6: the timer is never running at zero.
NotRunningAtZero == remaining_time = 0 => ~timer_running

\* C7: the remaining time stays between 0 and the configured duration of
\* the current mode; the loop's decrement takes exactly one second off and
\* is never taken at 0.
RemainingWithinBounds ==
    /\ [](0 <= remaining_time /\ remaining_time <= ConfiguredDuration)
    /\ [][ /\ Tick => remaining_time' = remaining_time - 1
           /\ remaining_time = 0 => ~Tick ]_vars

\* The loop is at its condition with no time left.
RemainingAtZeroWitness ==
    /\ remaining_time = 0
    /\ timer_running
    /\ pc = "loop"

AppliedSeconds == <<last'[3][1] * 60, last'[3][2] * 60, last'[3][3] * 60>>

\* C9: a valid reconfiguration stores the three durations, sets the remaining
\* time to the new duration of the current mode, stops the timer and keeps
\* mode and count (10, 2, 2 in Work at 1500 gives 600); the durations in force
\* are the ones a later switch uses, and a switch out of Work still follows
\* the multiple-of-4 rule.
ReconfigureEffect ==
    [][ /\ (last'[1] = "apply"
               /\ ApplySettings(last'[3][1], last'[3][2], last'[3][3])) =>
                   /\ Durations' = AppliedSeconds
                   /\ remaining_time' = DurationOf(current_mode, AppliedSeconds[1],
                                                   AppliedSeconds[2], AppliedSeconds[3])
                   /\ timer_running' = FALSE
                   /\ current_mode' = current_mode
                   /\ pomodoros_completed' = pomodoros_completed
                   /\ (last'[3] = <<10, 2, 2>> /\ current_mode = "Work"
                          /\ remaining_time = 1500) => remaining_time' = 600
        /\ (Skip \/ Finish) =>
               /\ remaining_time' = ConfiguredDuration'
               /\ current_mode = "Work" =>
                      current_mode' = (IF (pomodoros_completed + 1) % 4 = 0
                                       THEN "Long Break" ELSE "Short Break") ]_vars

\* Scenario C applied in the first Work phase.
ScenarioCWitness ==
    /\ last[1] = "apply"
    /\ last[3] = <<10, 2, 2>>
    /\ Durations = <<600, 120, 120>>
    /\ current_mode = "Work"
    /\ remaining_time = 600
    /\ pomodoros_completed = 0

\* A valid reconfiguration that arrives while the timer is running.
ReconfigureMidRun ==
    /\ timer_running
    /\ last'[1] = "apply"
    /\ ApplySettings(last'[3][1], last'[3][2], last'[3][3])

\* C10 as stated: a valid reconfiguration applied while the timer is running
\* leaves it running.
ReconfigureKeepsRunning == [][ ReconfigureMidRun => timer_running' ]_vars

\* C10 amended: a valid reconfiguration applied while the timer is running
\* stops the run (timer_running is false and the loop is left) and sets the
\* remaining time to the new duration of the current mode; the mode and the
\* count are kept.
ReconfigureStopsRun ==
    [][ ReconfigureMidRun =>
            /\ ~timer_running'
            /\ pc' = "idle"
            /\ remaining_time' = ConfiguredDuration'
            /\ current_mode' = current_mode
            /\ pomodoros_completed' = pomodoros_completed ]_vars

\* A reconfiguration arrived while the timer was running.
ReconfigureMidRunWitness ==
    /\ last[1] = "apply"
    /\ last[2]
    /\ ~timer_running
    /\ remaining_time = ConfiguredDuration

\* The mode of the phase before the current one in a run of natural expiries.
PreviousMode ==
    IF Len(entered) <= 1 THEN "Work" ELSE entered[Len(entered) - 1]

\* C11: Scenario A for every phase of a run of natural expiries (Start, then
\* ticks, no other command). While the phase of duration D runs, after k
\* ticks the mode is unchanged, the timer is still running and the remaining
\* time is D - k, with k <= D; once the loop has ended the phase, exactly D
\* ticks were taken, the mode has switched, the remaining time is the full
\* duration of the new mode and the timer is stopped. For the first Work
\* phase: 1500 ticks lead to Short Break, 300 s, one completed, stopped.
ScenarioA ==
    how = "expiries" =>
        /\ pc # "idle" =>
               /\ timer_running
               /\ ticks <= ConfiguredDuration
               /\ remaining_time = ConfiguredDuration - ticks
               /\ current_mode = (IF entered = << >> THEN "Work"
                                  ELSE entered[Len(entered)])
               /\ pomodoros_completed = (Len(entered) + 1) \div 2
        /\ pc = "idle" =>
               /\ Len(entered) > 0
               /\ ~timer_running
               /\ ticks = DurationOf(PreviousMode, work_duration,
                                     short_break_duration, long_break_duration)
               /\ current_mode = entered[Len(entered)]
               /\ current_mode # PreviousMode
               /\ remaining_time = ConfiguredDuration
        /\ (pc = "idle" /\ Len(entered) = 1) =>
               /\ ticks = DEFAULT_WORK_MINUTES * SECONDS_PER_MINUTE
               /\ current_mode = "Short Break"
               /\ remaining_time = DEFAULT_SHORT_BREAK_MINUTES * SECONDS_PER_MINUTE
               /\ pomodoros_completed = 1
               /\ ~timer_running

\* The first Work phase has run its 1500 ticks and has been switched.
ScenarioAWitness ==
    /\ how = "expiries"
    /\ Len(entered) = 1
    /\ pc = "idle"
    /\ ticks = 1500
    /\ current_mode = "Short Break"

\* C12: Reset Phase stops the timer and sets the remaining time to the
\* configured duration of the current mode; the mode, the count of completed
\* work phases and the three durations are unchanged.
ResetPhaseFrame ==
    [][ ResetPhase =>
            /\ ~timer_running'
            /\ pc' = "idle"
            /\ remaining_time' = ConfiguredDuration
            /\ current_mode' = current_mode
            /\ pomodoros_completed' = pomodoros_completed
            /\ Durations' = Durations ]_vars

\* Reset Phase arrived in a running Long Break.
ResetPhaseWitness ==
    /\ last = <<"reset_phase", TRUE, << >> >>
    /\ current_mode = "Long Break"
    /\ remaining_time = long_break_duration
    /\ ~timer_running

\* C13: Reset Full Cycle leaves the initial state under the current
\* configuration (stopped, Work, the full work duration, count 0) and keeps
\* the three durations; a second Reset Full Cycle right after the first
\* changes nothing.
ResetCycleInitial ==
    [][ ResetCycle =>
            /\ ~timer_running'
            /\ pc' = "idle"
            /\ current_mode' = "Work"
            /\ remaining_time' = work_duration
            /\ pomodoros_completed' = 0
            /\ Durations' = Durations
            /\ last[1] = "reset_cycle" => UNCHANGED <<engine, pc>> ]_vars

\* Reset Full Cycle arrived in a running break, with counted work phases,
\* under a configuration that is not the default one.
ResetCycleWitness ==
    /\ last = <<"reset_cycle", TRUE, << >> >>
    /\ Durations = <<120, 60, 60>>
    /\ current_mode = "Work"
    /\ remaining_time = 120
    /\ pomodoros_completed = 0

\* C14: start_timer() called in any reachable state always returns; it sets
\* timer_running when remaining_time > 0 and changes nothing when
\* remaining_time is 0; it never changes the mode, the remaining time, the
\* count or the durations. The Start button, where it can be clicked, starts
\* the timer and changes nothing else.
StartSafety ==
    /\ [](ENABLED start_timer)
    /\ [](remaining_time > 0 => ~ENABLED (start_timer /\ ~timer_running'))
    /\ [](remaining_time <= 0 =>
              ~ENABLED (start_timer /\ timer_running' # timer_running))
    /\ [][ Start =>
               /\ timer_running'
               /\ current_mode' = current_mode
               /\ remaining_time' = remaining_time
               /\ pomodoros_completed' = pomodoros_completed
               /\ Durations' = Durations ]_vars

\* A stopped timer with no time left, where start_timer() has no effect.
StartAtZeroWitness ==
    /\ remaining_time = 0
    /\ ~timer_running
    /\ last[1] = "pause"

\* C15: pause_timer() called in any reachable state always returns, leaves
\* timer_running false and changes nothing else; called in a state where the
\* timer is already stopped (as after a first call) it changes nothing at
\* all. The Pause button stops the timer and changes nothing else.
PauseIdempotent ==
    /\ [](ENABLED pause_timer)
    /\ [](~ENABLED (pause_timer /\ timer_running'))
    /\ [](~timer_running => ~ENABLED (pause_timer /\ engine' # engine))
    /\ [][ Pause =>
               /\ ~timer_running'
               /\ pc' = "idle"
               /\ current_mode' = current_mode
               /\ remaining_time' = remaining_time
               /\ pomodoros_completed' = pomodoros_completed
               /\ Durations' = Durations ]_vars

\* The timer was paused in the middle of a phase.
PauseWitness ==
    /\ last = <<"pause", TRUE, << >> >>
    /\ ~timer_running
    /\ remaining_time > 0
    /\ remaining_time < ConfiguredDuration

AllowedEdges == {<<"Work", "Short Break">>, <<"Work", "Long Break">>,
                 <<"Short Break", "Work">>, <<"Long Break", "Work">>}

\* A valid reconfiguration step.
ReconfigureStep ==
    /\ last'[1] = "apply"
    /\ ApplySettings(last'[3][1], last'[3][2], last'[3][3])

\* C16: the mode changes only along Work -> Short Break, Work -> Long Break,
\* Short Break -> Work and Long Break -> Work, never from one break to the
\* other; Start, Pause, a tick, the wake-up after a tick, Reset Phase, a
\* rerun and a reconfiguration never change the mode.
ModeEdges ==
    [][ /\ current_mode' # current_mode =>
               <<current_mode, current_mode'>> \in AllowedEdges
        /\ (Start \/ Pause \/ ResetPhase \/ Tick \/ Wake \/ Rerun
                \/ ReconfigureStep) => current_mode' = current_mode ]_vars

\* Eight skips from the initial state: every edge has been taken.
ModeEdgesWitness ==
    /\ how = "skips"
    /\ Len(entered) = 8
    /\ entered[7] = "Long Break"
    /\ entered[1] = "Short Break"
    /\ current_mode = "Work"

\* The commands that stop the timer.
StoppingCommands == {"pause", "reset_phase", "reset_cycle", "skip", "apply"}

\* C17: commands are serialized against ticks. After Pause, Reset Phase,
\* Reset Full Cycle, Skip or a reconfiguration the timer is stopped and the
\* timer loop is left, and it stays so until a later Start: no tick is taken
\* while one of them is the last command. The remaining time is decremented
\* only by ticks, which are taken while the timer is running and leave it
\* running; whenever the timer is stopped no loop is active.
CommandsSerialized ==
    /\ [](last[1] \in StoppingCommands => ~timer_running /\ pc = "idle")
    /\ [](~timer_running => pc = "idle")
    /\ [][ Tick => /\ timer_running /\ timer_running'
                   /\ last[1] \notin StoppingCommands ]_vars
    /\ [][ (remaining_time' < remaining_time
               /\ remaining_time' # ConfiguredDuration') =>
               /\ Tick
               /\ remaining_time' = remaining_time - 1
               /\ timer_running ]_vars

\* Skip arrived while the timer was running.
SkipMidRunWitness ==
    /\ last = <<"skip", TRUE, << >> >>
    /\ ~timer_running
    /\ pc = "idle"
    /\ current_mode = "Short Break"

\* The current phase may be switched within the bound on the count.
WithinCount == current_mode = "Work" => pomodoros_completed < MaxPomodoros

\* The phase started by the last Start has been switched by its expiry.
Expired ==
    /\ ~timer_running
    /\ pc = "idle"
    /\ last[1] \in {"start", "rejected"}
    /\ <<current_mode, remaining_time, pomodoros_completed>> = expect

\* C18: no state is terminal, and a running phase ends: from every reachable
\* running state the countdown goes on until switch_mode has run and the next
\* mode is entered with the timer stopped, unless a command intervenes; with
\* Start pressed after every switch and no other command the cycle goes on
\* through every mode edge, up to the bound on the count.
Progress ==
    /\ []ENABLED <<Next>>_vars
    /\ (timer_running /\ WithinCount)
           ~> (Expired \/ last[1] \in StoppingCommands)
    /\ <>(how \in {"skips", "mixed"}
             \/ (how = "expiries" /\ Len(entered) = 2 * MaxPomodoros - 1
                    /\ pomodoros_completed = MaxPomodoros))

\* A phase started under a changed configuration has expired by itself.
ExpiredWitness ==
    /\ Expired
    /\ how = "mixed"
    /\ Durations = <<60, 120, 60>>
    /\ current_mode = "Long Break"
    /\ pomodoros_completed = 4

\* An expiry that has not been handled yet: 00:00 with the timer running.
ExpiryPending == timer_running /\ remaining_time <= 0

ModeCountConsistent ==
    /\ [](current_mode = "Long Break" =>
              (pomodoros_completed > 0
                 /\ pomodoros_completed % POMODOROS_BEFORE_LONG_BREAK = 0))
    /\ [](current_mode = "Short Break" =>
              pomodoros_completed % POMODOROS_BEFORE_LONG_BREAK # 0)
    /\ [][ pomodoros_completed' # pomodoros_completed =>
               \/ /\ Skip \/ Finish
                  /\ current_mode = "Work"
                  /\ current_mode' # "Work"
                  /\ pomodoros_completed' = pomodoros_completed + 1
               \/ /\ ResetCycle
                  /\ pomodoros_completed' = 0 ]_vars

\* The second Long Break, at 8 completed work phases, after a Reset Phase in it.
SecondLongBreakWitness ==
    /\ current_mode = "Long Break"
    /\ pomodoros_completed = 2 * POMODOROS_BEFORE_LONG_BREAK
    /\ last[1] = "reset_phase"

====
